---- MODULE Spec2Model ----
(***************************************************************************)
(* A model of ConditionSet (source/ConditionSet.cpp): a tree of            *)
(* (name, operator, value) expressions and nested "and"/"or" sets that is  *)
(* built from DataNode lines (Load / Add), tested against or applied to a  *)
(* map of condition names to integers (Test / Apply) and written back out  *)
(* in canonical three-token form (Save).                                   *)
(***************************************************************************)
EXTENDS Integers, Sequences, FiniteSets, TLC

VARIABLES
    isOr,         \* ConditionSet::isOr of the set under construction / use
    expressions,  \* ConditionSet::expressions, in declaration order
    children,     \* ConditionSet::children, in declaration order
    conditions,   \* the caller's map<string, int> handed to Test and Apply
    pc,           \* the member function that ran last
    arg,          \* the argument(s) that call was given
    prior,        \* the ConditionSet as it was when that call began
    before,       \* the caller's map as it was when that call began
    ret,          \* what the call returned (Add: bool, Test: bool)
    trace,        \* Test: the expressions / children evaluated, in order
    drawn,        \* Test: how many times Random::Int was called
    out,          \* Save: the lines handed to the DataWriter
    reloaded      \* a second ConditionSet, Load()ed from the lines in out

vars == <<isOr, expressions, children, conditions, pc, arg, prior, before,
          ret, trace, drawn, out, reloaded>>

-----------------------------------------------------------------------------
(* Bounds of the model.                                                    *)

\* Largest number of expressions plus nested sets one ConditionSet may hold.
MaxSize == 3
\* Condition values are kept within -MaxVal .. MaxVal.
MaxVal == 6
\* Random::Int(100) draws from 0 .. RandomUpper - 1.
RandomUpper == 100

-----------------------------------------------------------------------------
(* The operator table.                                                     *)

nullptr == "nullptr"

\* The lambda each operator token is bound to.
opMap ==
    [op \in {"==", "!=", "<", ">", "<=", ">=", "=", "+=", "-=", "<?=", ">?="} |->
        CASE op = "=="  -> "eq"
          [] op = "!="  -> "ne"
          [] op = "<"   -> "lt"
          [] op = ">"   -> "gt"
          [] op = "<="  -> "le"
          [] op = ">="  -> "ge"
          [] op = "="   -> "assign"
          [] op = "+="  -> "add"
          [] op = "-="  -> "sub"
          [] op = "<?=" -> "min"
          [] op = ">?=" -> "max"]

Op(op) == IF op \in DOMAIN opMap THEN opMap[op] ELSE nullptr

\* The lambdas: a is the condition's current value, b the expression's
\* value.  nullptr is none of them: calling it has no defined result.
Lambda(fun, a, b) ==
    CASE fun = "eq"     -> IF a = b THEN 1 ELSE 0
      [] fun = "ne"     -> IF a # b THEN 1 ELSE 0
      [] fun = "lt"     -> IF a < b THEN 1 ELSE 0
      [] fun = "gt"     -> IF a > b THEN 1 ELSE 0
      [] fun = "le"     -> IF a <= b THEN 1 ELSE 0
      [] fun = "ge"     -> IF a >= b THEN 1 ELSE 0
      [] fun = "assign" -> b
      [] fun = "add"    -> a + b
      [] fun = "sub"    -> a - b
      [] fun = "min"    -> IF a < b THEN a ELSE b
      [] fun = "max"    -> IF a < b THEN b ELSE a

\* The call with its arguments the wrong way round.
CallSwapped(fun, current, value) == Lambda(fun, value, current)

\* expression.fun(value, expression.value), as Test and Apply call it.
Call(fun, current, value) == Lambda(fun, current, value)

Expression(name, op, value) ==
    [name |-> name, op |-> op, fun |-> Op(op), value |-> value]

-----------------------------------------------------------------------------
(* DataNode and DataWriter, as far as ConditionSet uses them.              *)

DataNode(tokens, kids) == [tokens |-> tokens, children |-> kids]
Size(node) == Len(node.tokens)
Token(node, i) == node.tokens[i + 1]

\* The numeric value of a token (the numerals that occur in the model).
Value(node, i) ==
    LET t == Token(node, i)
    IN  CASE t = "0"  -> 0
          [] t = "1"  -> 1
          [] t = "5"  -> 5
          [] t = "05" -> 5
          [] t = "-1" -> 0 - 1
          [] OTHER    -> 0

Digit == <<"0", "1", "2", "3", "4", "5", "6", "7", "8", "9">>

\* The text DataWriter writes for an int.
RECURSIVE WriteInt(_)
WriteInt(n) ==
    IF n < 0 THEN "-" \o WriteInt(0 - n)
    ELSE IF n < 10 THEN Digit[n + 1]
    ELSE WriteInt(n \div 10) \o Digit[(n % 10) + 1]

-----------------------------------------------------------------------------
(* The ConditionSet as a value.                                            *)

ConditionSet(o, e, c) == [isOr |-> o, expressions |-> e, children |-> c]
Empty == ConditionSet(FALSE, <<>>, <<>>)
This == ConditionSet(isOr, expressions, children)

IsEmpty(set) == set.expressions = <<>> /\ set.children = <<>>

\* Add(first, second) with the suffix rules tried before the keyword rules.
Add2SuffixFirst(set, firstToken, secondToken) ==
    LET push(e) == [set |-> [set EXCEPT !.expressions = Append(@, e)], ok |-> TRUE]
    IN  IF secondToken = "++" THEN push(Expression(firstToken, "+=", 1))
        ELSE IF secondToken = "--" THEN push(Expression(firstToken, "-=", 1))
        ELSE IF firstToken = "not" THEN push(Expression(secondToken, "==", 0))
        ELSE IF firstToken = "has" THEN push(Expression(secondToken, "!=", 0))
        ELSE IF firstToken = "set" THEN push(Expression(secondToken, "=", 1))
        ELSE IF firstToken = "clear" THEN push(Expression(secondToken, "=", 0))
        ELSE [set |-> set, ok |-> FALSE]

\* Add(const string &, const string &): the set afterwards and the result.
Add2(set, firstToken, secondToken) ==
    LET push(e) == [set |-> [set EXCEPT !.expressions = Append(@, e)], ok |-> TRUE]
    IN  IF firstToken = "not" THEN push(Expression(secondToken, "==", 0))
        ELSE IF firstToken = "has" THEN push(Expression(secondToken, "!=", 0))
        ELSE IF firstToken = "set" THEN push(Expression(secondToken, "=", 1))
        ELSE IF firstToken = "clear" THEN push(Expression(secondToken, "=", 0))
        ELSE IF secondToken = "++" THEN push(Expression(firstToken, "+=", 1))
        ELSE IF secondToken = "--" THEN push(Expression(firstToken, "-=", 1))
        ELSE [set |-> set, ok |-> FALSE]

\* Add(name, op, value) without the check of the operator.
Add3Unchecked(set, name, op, value) ==
    [set |-> [set EXCEPT !.expressions = Append(@, Expression(name, op, value))],
     ok |-> TRUE]

\* Add(const string &, const string &, int): isnan() of an int is never true.
Add3(set, name, op, value) ==
    LET fun == Op(op)
    IN  IF fun = nullptr
        THEN [set |-> set, ok |-> FALSE]
        ELSE [set |-> [set EXCEPT !.expressions = Append(@, Expression(name, op, value))],
              ok |-> TRUE]

RECURSIVE Load(_, _), AddNode(_, _), AddEach(_, _, _)

\* Add(const DataNode &): the set afterwards (a failed line only prints).
AddNode(set, node) ==
    IF Size(node) = 2
    THEN Add2(set, Token(node, 0), Token(node, 1)).set
    ELSE IF Size(node) = 3
    THEN Add3(set, Token(node, 0), Token(node, 1), Value(node, 2)).set
    ELSE IF Size(node) = 1 /\ Token(node, 0) = "never"
    THEN [set EXCEPT !.expressions = Append(@, Expression("", "!=", 0))]
    ELSE IF Size(node) = 1 /\ (Token(node, 0) = "and" \/ Token(node, 0) = "or")
    THEN [set EXCEPT !.children = Append(@, Load(Empty, node))]
    ELSE set

\* The loop of Load, given up at the first line that adds nothing.
RECURSIVE AddEachAbort(_, _, _)
AddEachAbort(set, kids, i) ==
    IF i > Len(kids) THEN set
    ELSE LET next == AddNode(set, kids[i])
         IN  IF next = set THEN set ELSE AddEachAbort(next, kids, i + 1)

\* The loop of Load over the node's children, from child i on.
AddEach(set, kids, i) ==
    IF i > Len(kids) THEN set ELSE AddEach(AddNode(set, kids[i]), kids, i + 1)

Load(set, node) ==
    AddEach([set EXCEPT !.isOr = (Token(node, 0) = "or")], node.children, 1)

-----------------------------------------------------------------------------
(* Test.                                                                   *)

EmptyMap == [k \in {} |-> 0]

\* The lookup done with conditions[name], which inserts an absent key.
FindInserting(map, name) ==
    [value |-> IF name \in DOMAIN map THEN map[name] ELSE 0,
     conditions |-> IF name \in DOMAIN map THEN map
                    ELSE [k \in DOMAIN map \cup {name} |->
                             IF k = name THEN 0 ELSE map[k]]]

\* conditions.find(name): the value read (0 when the key is absent) and the
\* map afterwards, which find() leaves as it was.
Find(map, name) ==
    [value |-> IF name \in DOMAIN map THEN map[name] ELSE 0, conditions |-> map]

\* A scan that never returns early.
BailNever(result, setIsOr) == FALSE

\* if(result == isOr) return result;
Bail(result, setIsOr) == result = setIsOr

\* A scan that returns true whenever nothing made it return early.
NothingBailedTrue(setIsOr) == TRUE

\* return !isOr;
NothingBailed(setIsOr) == ~setIsOr

\* Random::Int(upper) returns one of 0 .. upper - 1.
RandomInt(upper) == 0 .. (upper - 1)

\* The evaluation state threaded through Test: the caller's map, the draws
\* Random::Int will return next, the elements evaluated so far, and the
\* number of draws made.  An element's place in its set is its index among
\* the expressions, or Len(expressions) + its index among the children.
RECURSIVE Test(_, _, _), TestExpressions(_, _, _, _), TestChildren(_, _, _, _)

TestExpressions(set, i, st, path) ==
    IF i > Len(set.expressions)
    THEN TestChildren(set, 1, st, path)
    ELSE LET expression == set.expressions[i]
             isRandom == expression.name = "random"
             found == Find(st.conditions, expression.name)
             value == IF isRandom THEN Head(st.rnd) ELSE found.value
             result == Call(expression.fun, value, expression.value) # 0
             st1 == [conditions |-> IF isRandom THEN st.conditions ELSE found.conditions,
                     rnd |-> IF isRandom THEN Tail(st.rnd) ELSE st.rnd,
                     drawn |-> IF isRandom THEN st.drawn + 1 ELSE st.drawn,
                     trace |-> Append(st.trace,
                                      [path |-> Append(path, i), result |-> result])]
         IN  IF Bail(result, set.isOr)
             THEN [result |-> result, st |-> st1]
             ELSE TestExpressions(set, i + 1, st1, path)

TestChildren(set, j, st, path) ==
    IF j > Len(set.children)
    THEN [result |-> NothingBailed(set.isOr), st |-> st]
    ELSE LET here == Append(path, Len(set.expressions) + j)
             sub == Test(set.children[j], st, here)
             st1 == [sub.st EXCEPT !.trace =
                        Append(@, [path |-> here, result |-> sub.result])]
         IN  IF Bail(sub.result, set.isOr)
             THEN [result |-> sub.result, st |-> st1]
             ELSE TestChildren(set, j + 1, st1, path)

Test(set, st, path) == TestExpressions(set, 1, st, path)

-----------------------------------------------------------------------------
(* Apply.                                                                  *)

\* conditions[name]: the map afterwards, with the key inserted at 0 if absent.
Subscript(map, name) ==
    IF name \in DOMAIN map THEN map
    ELSE [k \in DOMAIN map \cup {name} |-> IF k = name THEN 0 ELSE map[k]]

RECURSIVE Apply(_, _), ApplyExpressions(_, _, _), ApplyChildren(_, _, _)

ApplyExpressions(set, i, map) ==
    IF i > Len(set.expressions)
    THEN map
    ELSE LET expression == set.expressions[i]
             m1 == Subscript(map, expression.name)
             c == Call(expression.fun, m1[expression.name], expression.value)
         IN  ApplyExpressions(set, i + 1, [m1 EXCEPT ![expression.name] = c])

\* Apply without the loop over the children.
ApplyChildrenNone(set, j, map) == map

ApplyChildren(set, j, map) ==
    IF j > Len(set.children)
    THEN map
    ELSE ApplyChildren(set, j + 1, Apply(set.children[j], map))

Apply(set, map) == ApplyChildren(set, 1, ApplyExpressions(set, 1, map))

-----------------------------------------------------------------------------
(* Save.                                                                   *)

\* Every nested set written as an "and" set.
KeywordAnd(child) == "and"

\* out.Write(child.isOr ? "or" : "and");
Keyword(child) == IF child.isOr THEN "or" ELSE "and"

\* out.Write(expression.name, expression.op, expression.value);
WriteExpression(expression) ==
    DataNode(<<expression.name, expression.op, WriteInt(expression.value)>>, <<>>)

RECURSIVE Save(_), SaveExpressions(_, _), SaveChildren(_, _)

SaveExpressions(set, i) ==
    IF i > Len(set.expressions) THEN <<>>
    ELSE <<WriteExpression(set.expressions[i])>> \o SaveExpressions(set, i + 1)

\* A child's lines are written between BeginChild() and EndChild(): they are
\* the children of the child's "and" / "or" line.
SaveChildren(set, j) ==
    IF j > Len(set.children) THEN <<>>
    ELSE <<DataNode(<<Keyword(set.children[j])>>, Save(set.children[j]))>>
         \o SaveChildren(set, j + 1)

Save(set) == SaveExpressions(set, 1) \o SaveChildren(set, 1)

-----------------------------------------------------------------------------
(* Measures of a set and of a node.                                        *)

RECURSIVE SumOver(_, _, _)
SumOver(F(_), seq, i) == IF i > Len(seq) THEN 0 ELSE F(seq[i]) + SumOver(F, seq, i + 1)

\* The number of expressions and nested sets in a set, at every depth.
RECURSIVE Count(_)
Count(set) ==
    Len(set.expressions) + Len(set.children) + SumOver(Count, set.children, 1)

\* The number of expressions named "random" in a set, at every depth.
RECURSIVE CountRandom(_)
CountRandom(set) ==
    Cardinality({i \in 1 .. Len(set.expressions) : set.expressions[i].name = "random"})
    + SumOver(CountRandom, set.children, 1)

\* The names of all expressions of a set, at every depth.
RECURSIVE Names(_)
Names(set) ==
    {set.expressions[i].name : i \in 1 .. Len(set.expressions)}
    \cup UNION {Names(set.children[j]) : j \in 1 .. Len(set.children)}

\* All expressions of a set, at every depth.
RECURSIVE AllExpressions(_)
AllExpressions(set) ==
    {set.expressions[i] : i \in 1 .. Len(set.expressions)}
    \cup UNION {AllExpressions(set.children[j]) : j \in 1 .. Len(set.children)}

-----------------------------------------------------------------------------
(* The inputs the calls are given.                                         *)

Leaf(tokens) == DataNode(tokens, <<>>)

\* The lists of lines, drawn from the leaf lines in leaves and from "and" /
\* "or" groups of such lists, that hold exactly n lines at all depths.
RECURSIVE ListsOfSize(_, _)
ListsOfSize(leaves, n) ==
    IF n = 0 THEN {<<>>}
    ELSE {<<l>> \o rest : l \in leaves, rest \in ListsOfSize(leaves, n - 1)}
         \cup UNION {{<<DataNode(<<k>>, kids)>> \o rest :
                         k \in {"and", "or"},
                         kids \in ListsOfSize(leaves, m),
                         rest \in ListsOfSize(leaves, n - 1 - m)} :
                     m \in 0 .. (n - 1)}

\* The nodes Load may be handed, by the number of lines they hold: a first
\* token and such a list of lines.
Nodes(heads, leaves, n) ==
    [m \in 0 .. n |-> {DataNode(<<h>>, kids) : h \in heads, kids \in ListsOfSize(leaves, m)}]

\* Lines for sets that are then tested and applied.
EvalLeaves ==
    {Leaf(<<"never">>), Leaf(<<"set", "gold">>), Leaf(<<"gold", "+=", "5">>),
     Leaf(<<"set", "">>), Leaf(<<"random", "<", "1">>)}

EvalNodes == Nodes({"to", "or"}, EvalLeaves, MaxSize)

\* The maps a caller starts from.
InitialMaps == {EmptyMap, [k \in {"fuel"} |-> 2]}

\* The values Random::Int(100) is taken to return.
Draws == {0, RandomUpper - 1} \cap RandomInt(RandomUpper)

-----------------------------------------------------------------------------
(* The calls.                                                              *)

After(set, map, label, a, r, tr, dr, o, rl) ==
    /\ isOr' = set.isOr
    /\ expressions' = set.expressions
    /\ children' = set.children
    /\ conditions' = map
    /\ pc' = label
    /\ arg' = a
    /\ prior' = This
    /\ before' = conditions
    /\ ret' = r
    /\ trace' = tr
    /\ drawn' = dr
    /\ out' = o
    /\ reloaded' = rl

CallLoad(node) ==
    After(Load(This, node), conditions, "Load", node, FALSE, <<>>, 0, <<>>, Empty)

CallAddNode(node) ==
    After(AddNode(This, node), conditions, "AddNode", node, FALSE, <<>>, 0, <<>>, Empty)

CallAdd2(firstToken, secondToken) ==
    LET r == Add2(This, firstToken, secondToken)
    IN  After(r.set, conditions, "Add2", <<firstToken, secondToken>>, r.ok,
              <<>>, 0, <<>>, Empty)

CallAdd3(name, op, value) ==
    LET r == Add3(This, name, op, value)
    IN  After(r.set, conditions, "Add3", <<name, op, value>>, r.ok,
              <<>>, 0, <<>>, Empty)

CallTest(rnd) ==
    LET r == Test(This, [conditions |-> conditions, rnd |-> rnd, drawn |-> 0,
                         trace |-> <<>>], <<>>)
    IN  /\ pc' = "Test"
        /\ After(This, r.st.conditions, "Test", <<>>, r.result, r.st.trace,
                 r.st.drawn, <<>>, Empty)

CallApply ==
    /\ pc' = "Apply"
    /\ After(This, Apply(This, conditions), "Apply", <<>>, FALSE, <<>>, 0, <<>>, Empty)

CallSave ==
    /\ pc' = "Save"
    /\ After(This, conditions, "Save", <<>>, FALSE, <<>>, 0, Save(This), Empty)

\* A second ConditionSet is loaded from the lines just saved, under a line
\* whose first token names the combinator of the set that was saved.
CallReload(head) ==
    /\ pc = "Save"
    /\ (head = "or") = isOr
    /\ After(This, conditions, "Reload", head, FALSE, <<>>, 0, out,
             Load(Empty, DataNode(<<head>>, out)))

Init ==
    /\ isOr = FALSE
    /\ expressions = <<>>
    /\ children = <<>>
    /\ conditions \in InitialMaps
    /\ pc = "Construct"
    /\ arg = <<>>
    /\ prior = Empty
    /\ before = conditions
    /\ ret = FALSE
    /\ trace = <<>>
    /\ drawn = 0
    /\ out = <<>>
    /\ reloaded = Empty

\* The bounds of the model: a set holds at most n elements, and condition
\* values stay within -MaxVal .. MaxVal.
Fits(n) == Count(This') <= n
InRange == \A k \in DOMAIN conditions' : conditions'[k] \in (0 - MaxVal) .. MaxVal

\* The order of calls the model explores: a set is built by Add calls and
\* then at most one Load, and from then on only tested, applied and saved.
Adding == pc \in {"Construct", "AddNode", "Add2", "Add3"}

\* Sets of a few kinds of line, built and then tested, applied and saved.
Next ==
    \/ /\ Adding
       /\ \E m \in 0 .. (MaxSize - Count(This)) : \E node \in EvalNodes[m] : CallLoad(node)
    \/ /\ Adding
       /\ \E node \in EvalLeaves : CallAddNode(node) /\ Fits(MaxSize)
    \/ /\ Adding
       /\ \E t \in {<<"set", "gold">>, <<"gold", "++">>, <<"gold", "gold">>} :
             CallAdd2(t[1], t[2]) /\ Fits(MaxSize)
    \/ /\ Adding
       /\ \E op \in {"+=", "=>"} : CallAdd3("gold", op, 5) /\ Fits(MaxSize)
    \/ \E rnd \in [1 .. CountRandom(This) -> Draws] : CallTest(rnd)
    \/ CallApply /\ InRange
    \/ CallSave
    \/ \E head \in {"to", "and", "or"} : CallReload(head)

Spec == Init /\ [][Next]_vars

\* Lines of every shape, well-formed and not, for sets that are only built.
BuildLeaves ==
    {Leaf(<<"never">>), Leaf(<<"has", "gold">>), Leaf(<<"gold", ">=", "05">>),
     Leaf(<<"gold">>), Leaf(<<"gold", "gold">>), Leaf(<<"gold", "=>", "5">>),
     Leaf(<<"gold", "==", "1", "5">>)}

BuildNodes == Nodes({"to", "or"}, BuildLeaves, MaxSize)

\* Every operator token, and two tokens that are none.
OpTokens == DOMAIN opMap \cup {"=>", "has"}

\* Sets built from lines of every shape and from binary expressions of
\* every operator.
NextBuild ==
    \/ /\ Adding
       /\ \E m \in 0 .. (MaxSize - Count(This)) : \E node \in BuildNodes[m] : CallLoad(node)
    \/ /\ Adding
       /\ \E node \in BuildLeaves : CallAddNode(node) /\ Fits(MaxSize - 1)
    \/ /\ Adding
       /\ \E t \in {<<"set", "gold">>, <<"gold", "gold">>} :
             CallAdd2(t[1], t[2]) /\ Fits(MaxSize - 1)
    \/ /\ Adding
       /\ \E op \in OpTokens : CallAdd3("gold", op, 5) /\ Fits(MaxSize - 1)

SpecBuild == Init /\ [][NextBuild]_vars

\* The first and second tokens of two-token lines.
FirstTokens == {"not", "has", "set", "clear", "gold"}
SecondTokens == {"gold", "++", "--"}

\* Sets built from two-token lines of every shape.
NextAdd ==
    \/ /\ Adding
       /\ \E firstToken \in FirstTokens, secondToken \in SecondTokens :
             CallAdd2(firstToken, secondToken) /\ Fits(MaxSize - 1)
    \/ /\ Adding
       /\ \E op \in {"!=", "=", "+=", "=>"}, value \in {0, 1} :
             CallAdd3("gold", op, value) /\ Fits(MaxSize - 1)
    \/ /\ Adding
       /\ \E node \in {Leaf(<<"has", "gold">>), Leaf(<<"gold", "++">>),
                       Leaf(<<"gold", "!=", "0">>), Leaf(<<"gold", "+=", "1">>)} :
             CallAddNode(node) /\ Fits(MaxSize - 1)

SpecAdd == Init /\ [][NextAdd]_vars

-----------------------------------------------------------------------------
(* What the properties below are stated with.                              *)

\* The fixed set of operator tokens.
OperatorTokens == {"==", "!=", "<", ">", "<=", ">=", "=", "+=", "-=", "<?=", ">?="}

Front(p) == SubSeq(p, 1, Len(p) - 1)
Last(p) == p[Len(p)]

\* The nested set reached from set by the path p of element places.
RECURSIVE NodeAt(_, _)
NodeAt(set, p) ==
    IF p = <<>> THEN set
    ELSE NodeAt(set.children[Head(p) - Len(set.expressions)], Tail(p))

\* Whether an entry of the trace is a nested set (and not an expression).
IsChildEntry(e) == Last(e.path) > Len(NodeAt(This, Front(e.path)).expressions)

\* The expression an entry of the trace stands for.
ExpressionAt(e) == NodeAt(This, Front(e.path)).expressions[Last(e.path)]

\* The entries of the trace for the elements of the set at path p, in order.
ScanOf(p) == SelectSeq(trace, LAMBDA e : Len(e.path) = Len(p) + 1 /\ Front(e.path) = p)

\* The paths of the sets Test was called on: the root and the nested sets
\* that have an entry.
TestedSets ==
    {<<>>} \cup {trace[i].path : i \in {k \in 1 .. Len(trace) : IsChildEntry(trace[k])}}

\* What Test returned for the set at path p.
ResultOf(p) ==
    IF p = <<>> THEN ret
    ELSE trace[CHOOSE i \in 1 .. Len(trace) : trace[i].path = p].result

\* The value an expression reads from a map, and whether it holds there.
Holds(expression, map) ==
    LET value == IF expression.name \in DOMAIN map THEN map[expression.name] ELSE 0
    IN  Lambda(expression.fun, value, expression.value) # 0

\* The conjunction (isOr false) or disjunction (isOr true) of all elements.
RECURSIVE Meaning(_, _)
Meaning(set, map) ==
    IF set.isOr
    THEN \/ \E i \in 1 .. Len(set.expressions) : Holds(set.expressions[i], map)
         \/ \E j \in 1 .. Len(set.children) : Meaning(set.children[j], map)
    ELSE /\ \A i \in 1 .. Len(set.expressions) : Holds(set.expressions[i], map)
         /\ \A j \in 1 .. Len(set.children) : Meaning(set.children[j], map)

\* All expressions of a set in the order Apply reaches them: the set's own,
\* then those of its children, child by child.
RECURSIVE Flat(_), FlatFrom(_, _)
FlatFrom(set, j) ==
    IF j > Len(set.children) THEN <<>>
    ELSE Flat(set.children[j]) \o FlatFrom(set, j + 1)
Flat(set) == set.expressions \o FlatFrom(set, 1)

\* The map after the expressions of a list are applied one after the other.
RECURSIVE ApplyList(_, _, _)
ApplyList(list, i, map) ==
    IF i > Len(list) THEN map
    ELSE LET name == list[i].name
             current == IF name \in DOMAIN map THEN map[name] ELSE 0
             result == Lambda(list[i].fun, current, list[i].value)
         IN  ApplyList(list, i + 1,
                       [k \in DOMAIN map \cup {name} |-> IF k = name THEN result ELSE map[k]])

\* The expression a two-token line stands for, as <<name, operator, value>>,
\* or <<>> if it stands for none.
Keywords == {"not", "has", "set", "clear"}
Desugar(firstToken, secondToken) ==
    CASE firstToken = "not"   -> <<secondToken, "==", 0>>
      [] firstToken = "has"   -> <<secondToken, "!=", 0>>
      [] firstToken = "set"   -> <<secondToken, "=", 1>>
      [] firstToken = "clear" -> <<secondToken, "=", 0>>
      [] firstToken \notin Keywords /\ secondToken = "++" -> <<firstToken, "+=", 1>>
      [] firstToken \notin Keywords /\ secondToken = "--" -> <<firstToken, "-=", 1>>
      [] OTHER -> <<>>

\* A line is malformed if its token count is wrong, if it is a two-token line
\* of no known form, or a three-token line with an unknown operator.
IsGroup(line) == Size(line) = 1 /\ Token(line, 0) \in {"and", "or"}
WellFormed(line) ==
    \/ Size(line) = 1 /\ Token(line, 0) \in {"never", "and", "or"}
    \/ Size(line) = 2 /\ Desugar(Token(line, 0), Token(line, 1)) # <<>>
    \/ Size(line) = 3 /\ Token(line, 1) \in OperatorTokens
IsLeaf(line) == ~IsGroup(line)

\* The expression of a well-formed line that is no group.
ExpressionOf(line) ==
    IF Size(line) = 1 THEN Expression("", "!=", 0)
    ELSE IF Size(line) = 2
    THEN LET d == Desugar(Token(line, 0), Token(line, 1))
         IN  Expression(d[1], d[2], d[3])
    ELSE Expression(Token(line, 0), Token(line, 1), Value(line, 2))

\* The set the well-formed lines of a node stand for.
RECURSIVE Expected(_)
Expected(node) ==
    LET valid == SelectSeq(node.children, WellFormed)
        leaves == SelectSeq(valid, IsLeaf)
        groups == SelectSeq(valid, IsGroup)
    IN  ConditionSet(Token(node, 0) = "or",
                     [i \in 1 .. Len(leaves) |-> ExpressionOf(leaves[i])],
                     [j \in 1 .. Len(groups) |-> Expected(groups[j])])

\* The maps a saved and reloaded set is compared on.
RoundTripMaps == UNION {[S -> {0 - 5, 0, 1}] : S \in SUBSET {"gold", ""}}

\* The set loaded from the lines "set gold" and "gold += 5".
GoldSet ==
    Load(Empty, DataNode(<<"to">>, <<Leaf(<<"set", "gold">>), Leaf(<<"gold", "+=", "5">>)>>))

\* The expression a "never" line appends.
Never == Expression("", "!=", 0)

-----------------------------------------------------------------------------
(* The properties.                                                         *)

\* C1, as stated: Apply of the set of the lines "set gold", "gold += 5" to
\* the empty map leaves gold at 5.
C1_GoldIsFive ==
    (pc = "Apply" /\ before = EmptyMap /\ This = GoldSet)
        => ("gold" \in DOMAIN conditions /\ conditions["gold"] = 5)

\* C1, amended: Apply of the set of the lines "set gold", "gold += 5" to the
\* empty map leaves gold at 6 (set to 1, then raised by 5) and no other key.
C1_GoldIsSix ==
    (pc = "Apply" /\ before = EmptyMap /\ This = GoldSet)
        => (DOMAIN conditions = {"gold"} /\ conditions["gold"] = 6)

C1_Witness ==
    /\ pc = "Apply" /\ before = EmptyMap /\ This = GoldSet /\ ~isOr
    /\ expressions = <<Expression("gold", "=", 1), Expression("gold", "+=", 5)>>
    /\ conditions["gold"] = 6

\* C2: Test of an "and" set that holds a "never" expression returns false,
\* whatever the map.
C2_NeverIsFalse ==
    (pc = "Test" /\ ~isOr /\ \E i \in 1 .. Len(expressions) : expressions[i] = Never)
        => ret = FALSE

\* C3: Test leaves the caller's map as it was: the same keys, the same
\* values; a name it reads that is no key is not made one.
C3_TestReadOnly ==
    pc = "Test" => (DOMAIN conditions = DOMAIN before /\ conditions = before)

C3_Witness ==
    /\ pc = "Test"
    /\ trace # <<>>
    /\ ~IsChildEntry(trace[1])
    /\ ExpressionAt(trace[1]).name \notin DOMAIN before \cup {"random"}
    /\ ExpressionAt(trace[1]).name \notin DOMAIN conditions

\* C4: in every set Test is called on, the elements evaluated are the first
\* k of the expressions followed by the children, in that order; none before
\* the k-th has a result equal to isOr; if k is not all of them the k-th has
\* and Test returns it; and Random::Int is called once for each evaluated
\* expression named "random" and never otherwise.
C4_ShortCircuit ==
    pc = "Test" =>
        /\ \A p \in TestedSets :
              LET node == NodeAt(This, p)
                  n == Len(node.expressions) + Len(node.children)
                  scan == ScanOf(p)
                  k == Len(scan)
              IN  /\ k <= n
                  /\ \A i \in 1 .. k : Last(scan[i].path) = i
                  /\ \A i \in 1 .. (k - 1) : scan[i].result # node.isOr
                  /\ k < n => (k >= 1 /\ scan[k].result = node.isOr)
                  /\ ResultOf(p) = IF k >= 1 /\ scan[k].result = node.isOr
                                   THEN node.isOr ELSE ~node.isOr
        /\ drawn = Cardinality({i \in 1 .. Len(trace) :
                                   /\ ~IsChildEntry(trace[i])
                                   /\ ExpressionAt(trace[i]).name = "random"})

\* An "and" set of a true, a false and a "random" expression: Test is false
\* after two evaluations and no draw.
C4_Witness ==
    /\ pc = "Test" /\ ~isOr
    /\ Len(expressions) = 3 /\ expressions[3].name = "random"
    /\ Len(trace) = 2 /\ trace[1].result /\ ~trace[2].result
    /\ ret = FALSE /\ drawn = 0

\* C5: for a set without "random" expressions, Test returns the conjunction
\* (isOr false) or disjunction (isOr true) of the results of all its
\* expressions and of Test of all its children; so an empty set returns !isOr.
C5_TestIsAndOr ==
    (pc = "Test" /\ CountRandom(This) = 0) => ret = Meaning(This, before)

\* An "and" set whose expressions hold and whose only child is an empty "or"
\* set: Test is false.
C5_Witness ==
    /\ pc = "Test" /\ CountRandom(This) = 0 /\ ~isOr
    /\ expressions # <<>>
    /\ \A i \in 1 .. Len(expressions) : Holds(expressions[i], before)
    /\ Len(children) = 1 /\ children[1].isOr /\ IsEmpty(children[1])
    /\ ret = FALSE

\* C6: the set loaded from what Save wrote behaves as the set saved: Test
\* returns the same (evaluating the same elements with the same draws) and
\* Apply yields the same map, on every map.  It holds of every set the model
\* builds, those built from three-token lines only among them.
C6_RoundTrip ==
    pc = "Reload" =>
        \A map \in RoundTripMaps :
            /\ Apply(reloaded, map) = Apply(This, map)
            /\ \A rnd \in [1 .. CountRandom(This) -> Draws] :
                  LET st == [conditions |-> map, rnd |-> rnd, drawn |-> 0, trace |-> <<>>]
                  IN  Test(reloaded, st, <<>>) = Test(This, st, <<>>)

\* A saved and reloaded set of three-token lines with a nested "or" group.
C6_Witness ==
    /\ pc = "Reload"
    /\ AllExpressions(This) \subseteq {Expression("gold", "+=", 5), Expression("random", "<", 1)}
    /\ expressions # <<>>
    /\ children # <<>> /\ children[1].isOr /\ children[1].expressions # <<>>
    /\ out # <<>>
    /\ reloaded.children # <<>>

\* C7: Load appends exactly what the well-formed lines of the node stand
\* for, in their order, at every depth; malformed lines add nothing and do
\* not end the loop.
C7_ParseFailuresLocal ==
    pc = "Load" =>
        LET e == Expected(arg)
        IN  /\ isOr = e.isOr
            /\ expressions = prior.expressions \o e.expressions
            /\ children = prior.children \o e.children

\* A node of a well-formed, a malformed and a well-formed line.
C7_Witness ==
    /\ pc = "Load" /\ Len(arg.children) = 3
    /\ WellFormed(arg.children[1]) /\ IsLeaf(arg.children[1])
    /\ ~WellFormed(arg.children[2])
    /\ WellFormed(arg.children[3]) /\ IsLeaf(arg.children[3])
    /\ Len(expressions) = Len(prior.expressions) + 2

\* C8: every expression of the set, at every depth, has an operator token
\* of the fixed set and the function bound to it, which can be called.
C8_OperatorsBound ==
    \A e \in AllExpressions(This) :
        /\ e.op \in OperatorTokens
        /\ e.fun # nullptr
        /\ e.fun = opMap[e.op]
        /\ Call(e.fun, 0, e.value) \in Int

\* Add(name, op, value) with an unknown operator: refused, the set unchanged.
C8_Witness ==
    /\ pc = "Add3" /\ arg[2] \notin OperatorTokens /\ ret = FALSE
    /\ This = prior /\ expressions # <<>>

\* C9: Add(first, second) appends the expression its keyword rule gives, or
\* else the one its suffix rule gives, and returns true; or it appends
\* nothing and returns false.  The expression is the one the three-token Add
\* of the same name, operator and value appends.
C9_Desugar ==
    pc = "Add2" =>
        LET d == Desugar(arg[1], arg[2])
        IN  IF d = <<>>
            THEN ret = FALSE /\ This = prior
            ELSE /\ ret = TRUE
                 /\ isOr = prior.isOr /\ children = prior.children
                 /\ expressions = Append(prior.expressions,
                                         [name |-> d[1], op |-> d[2],
                                          fun |-> opMap[d[2]], value |-> d[3]])
                 /\ This = Add3(prior, d[1], d[2], d[3]).set

\* The line "set ++": the keyword rule wins.
C9_Witness ==
    /\ pc = "Add2" /\ arg = <<"set", "++">> /\ ret = TRUE
    /\ Last(expressions) = Expression("++", "=", 1)

\* C10: Apply applies all expressions of the set at every depth, whatever
\* the isOr flags; afterwards the keys are the keys before and the names of
\* all expressions, and a key no expression names keeps its value.
C10_ApplyFootprint ==
    pc = "Apply" =>
        /\ conditions = ApplyList(Flat(This), 1, before)
        /\ DOMAIN conditions = DOMAIN before \cup Names(This)
        /\ \A k \in DOMAIN before \ Names(This) : conditions[k] = before[k]

\* An "or" child's expression applied to a map with a key it does not name.
C10_Witness ==
    /\ pc = "Apply"
    /\ "fuel" \in DOMAIN before /\ conditions["fuel"] = before["fuel"]
    /\ children # <<>> /\ children[1].isOr /\ children[1].expressions # <<>>
    /\ children[1].expressions[1].name \notin DOMAIN before
    /\ children[1].expressions[1].name \in DOMAIN conditions

====
